---- MODULE Spec2Model ----
(***************************************************************************)
(* Model of testes_units/agent: the module initialisation of agent.py, the *)
(* prompt template of prompt_templates.py and generate_tests_for_file.     *)
(*                                                                         *)
(* Text is a sequence of tokens.  A token is an atom of text: a word, a    *)
(* blank, a line break, a path separator.  The string operations of the    *)
(* code (strip, startswith, in, +, format, abspath, basename, splitext,    *)
(* join) are computed on these sequences.                                  *)
(***************************************************************************)
EXTENDS Naturals, Sequences, FiniteSets, TLC

VARIABLES
    env,     \* os.environ after load_dotenv(): variable name -> value
    mod,     \* the agent module: its state and its globals AZ_*, llm
    fs,      \* the files: path -> content, or NoFile
    dirs,    \* the directories that exist
    inv,     \* per thread: the frame of its call of generate_tests_for_file
    fs0,     \* history: fs when the latest call of generate_tests_for_file began
    fmt      \* the prompt builder taken alone: its arguments and its result

vars == <<env, mod, fs, dirs, inv, fs0, fmt>>

----------------------------------------------------------------------------
(* Bounds of the model.                                                    *)

\* a model response is made of at most MaxWords words of Words
MaxWords == 3
\* a source text given to the prompt builder alone has at most MaxSrcLen tokens
MaxSrcLen == 2

----------------------------------------------------------------------------
(* Text.                                                                   *)

RECURSIVE Concat(_)
Concat(ss) == IF ss = <<>> THEN <<>> ELSE Head(ss) \o Concat(Tail(ss))

SeqsUpTo(S, n) == UNION {[1..k -> S] : k \in 0..n}

\* str.strip() with no argument removes the white space at both ends
WhiteSpace == {" ", "\n"}

RECURSIVE LStrip(_)
LStrip(s) ==
    IF s # <<>> /\ Head(s) \in WhiteSpace THEN LStrip(Tail(s)) ELSE s

RECURSIVE RStrip(_)
RStrip(s) ==
    IF s # <<>> /\ s[Len(s)] \in WhiteSpace
    THEN RStrip(SubSeq(s, 1, Len(s) - 1))
    ELSE s

Strip(s) == RStrip(LStrip(s))

\* str.startswith(prefix)
StartsWith(s, prefix) ==
    /\ Len(prefix) <= Len(s)
    /\ SubSeq(s, 1, Len(prefix)) = prefix

\* sub in s
Contains(s, sub) ==
    \E i \in 1..(Len(s) + 1) :
        /\ i + Len(sub) - 1 <= Len(s)
        /\ SubSeq(s, i, i + Len(sub) - 1) = sub

----------------------------------------------------------------------------
(* Paths (os.path on a POSIX system).  "/" and "." are tokens of their own. *)

\* the working directory of the process
CWD == <<"/", "repo">>

\* the components of a path: the runs of tokens between the "/"
RECURSIVE SplitPath(_)
SplitPath(p) ==
    IF \E i \in 1..Len(p) : p[i] = "/"
    THEN LET i == CHOOSE k \in 1..Len(p) :
                      p[k] = "/" /\ \A j \in 1..(k - 1) : p[j] # "/"
         IN  <<SubSeq(p, 1, i - 1)>> \o SplitPath(SubSeq(p, i + 1, Len(p)))
    ELSE <<p>>

IsAbs(p) == p # <<>> /\ Head(p) = "/"

\* os.path.join(a, b)
Join(a, b) ==
    IF IsAbs(b) THEN b
    ELSE IF a = <<>> \/ a[Len(a)] = "/" THEN a \o b
    ELSE a \o <<"/">> \o b

\* os.path.normpath of an absolute path: empty and "." components go, ".."
\* takes the component before it away
RECURSIVE Resolve(_, _)
Resolve(comps, acc) ==
    IF comps = <<>> THEN acc
    ELSE LET c == Head(comps) IN
         IF c = <<>> \/ c = <<".">> THEN Resolve(Tail(comps), acc)
         ELSE IF c = <<".", ".">>
              THEN Resolve(Tail(comps),
                           IF acc = <<>> THEN acc
                           ELSE SubSeq(acc, 1, Len(acc) - 1))
              ELSE Resolve(Tail(comps), Append(acc, c))

RECURSIVE JoinComps(_)
JoinComps(comps) ==
    IF comps = <<>> THEN <<>>
    ELSE <<"/">> \o Head(comps) \o JoinComps(Tail(comps))

NormAbs(p) ==
    LET comps == Resolve(SplitPath(p), <<>>)
    IN  IF comps = <<>> THEN <<"/">> ELSE JoinComps(comps)

\* os.path.abspath(path)
Abspath(p) == NormAbs(IF IsAbs(p) THEN p ELSE Join(CWD, p))

\* os.path.basename(path): what follows the last "/"
Basename(p) == LET comps == SplitPath(p) IN comps[Len(comps)]

\* os.path.splitext(name)[0] of a name without "/": the name up to its last
\* ".", unless only dots come before that "."
SplitextRoot(name) ==
    LET dots == {i \in 1..Len(name) : name[i] = "."} IN
    IF dots = {} THEN name
    ELSE LET d == CHOOSE i \in dots : \A j \in dots : j <= i IN
         IF \E k \in 1..(d - 1) : name[k] # "."
         THEN SubSeq(name, 1, d - 1)
         ELSE name

\* f"test_{module_name}.py"
TestFileName(module_name) == <<"test_">> \o module_name \o <<".", "py">>

----------------------------------------------------------------------------
(* prompt_templates.py.                                                    *)

\* the three double quotes that open or close a long string literal
TQ == "QQQ"

\* lines 1 to 16 of the file, up to the first placeholder
HEADER_TEXT == "You are an automated test generator ... Source file path: "

\* The text of prompt_templates.py after "PROMPT_HEADER = ": the braces are
\* tokens, "\\n" is the two characters backslash and n.
TemplateFile ==
    << TQ, HEADER_TEXT, "{", "src_path", "}", "\nSource code:\n",
       TQ, "\\n", "{", "source", "}", "\\n", TQ, "\n",
       TQ, "\n" >>

\* A long string literal runs from its opening quotes to the next ones: the
\* literal of PROMPT_HEADER ends with the quotes that begin line 18, and what
\* follows them on lines 18 and 19 is no part of it.
FirstLiteral(file) ==
    LET close == CHOOSE k \in 2..Len(file) :
                     file[k] = TQ /\ \A j \in 2..(k - 1) : file[j] # TQ
    IN  SubSeq(file, 2, close - 1)

\* the value bound to PROMPT_HEADER
PROMPT_HEADER == FirstLiteral(TemplateFile)

\* str.format(**kwargs): literal text is copied, "{" name "}" is replaced by
\* kwargs[name]; the values substituted are not read again.  A "{" that is
\* not closed, a name that is not a keyword, or a single "}" is an error.
RECURSIVE Format(_, _)
Format(template, kwargs) ==
    IF template = <<>> THEN [ok |-> TRUE, val |-> <<>>]
    ELSE IF Head(template) = "{"
    THEN IF /\ Len(template) >= 3
            /\ template[3] = "}"
            /\ template[2] \in DOMAIN kwargs
         THEN LET rest == Format(SubSeq(template, 4, Len(template)), kwargs)
              IN  IF rest.ok
                  THEN [ok |-> TRUE, val |-> kwargs[template[2]] \o rest.val]
                  ELSE rest
         ELSE [ok |-> FALSE, val |-> <<>>]
    ELSE IF Head(template) = "}"
    THEN [ok |-> FALSE, val |-> <<>>]
    ELSE LET rest == Format(Tail(template), kwargs)
         IN  IF rest.ok
             THEN [ok |-> TRUE, val |-> <<Head(template)>> \o rest.val]
             ELSE rest

\* PROMPT_HEADER.format(src_path=src_path, source=source)
BuildPrompt(src_path, source) ==
    Format(PROMPT_HEADER, [src_path |-> src_path, source |-> source])

----------------------------------------------------------------------------
(* agent.py, lines 7 to 24: the initialisation of the module.              *)

\* the three variables the module reads, and one more of the environment
\* that it does not read
ReadVars == {"AZURE_OPENAI_ENDPOINT", "AZURE_OPENAI_KEY", "AZURE_OPENAI_DEPLOYMENT"}
EnvVars == ReadVars \cup {"AZURE_OPENAI_API_VERSION"}

\* a variable is unset (os.getenv gives None), set to "", or set to a value
None == "None"
EnvValues == {None, "", "value"}

\* os.getenv(name)
Getenv(name) == env[name]

\* the truth value Python gives a str or None
Truthy(v) == v # None /\ v # ""

\* lines 9 to 11: the three values, read once
AZ_ENDPOINT == Getenv("AZURE_OPENAI_ENDPOINT")
AZ_KEY == Getenv("AZURE_OPENAI_KEY")
AZ_DEPLOY == Getenv("AZURE_OPENAI_DEPLOYMENT")

\* (variant) the three values are tested against None, so "" passes
ConfigOkNotNone == AZ_ENDPOINT # None /\ AZ_KEY # None /\ AZ_DEPLOY # None

\* line 13: AZ_ENDPOINT and AZ_KEY and AZ_DEPLOY
ConfigOk == Truthy(AZ_ENDPOINT) /\ Truthy(AZ_KEY) /\ Truthy(AZ_DEPLOY)

NoLLM == [deployment_name |-> None, openai_api_base |-> None,
          openai_api_key |-> None, temperature |-> 0, max_tokens |-> 0,
          request_timeout |-> 0]

Unloaded == [state |-> "unloaded", error |-> None, llm |-> NoLLM]

\* lines 17 to 24: the client and its settings
llm ==
    [deployment_name |-> AZ_DEPLOY, openai_api_base |-> AZ_ENDPOINT,
     openai_api_key |-> AZ_KEY, temperature |-> 0, max_tokens |-> 1000,
     request_timeout |-> 120]

\* import of the module: the configuration is read once, then checked, then
\* the client is built
ModuleInit ==
    /\ mod.state = "unloaded"
    /\ mod' = IF ConfigOk
              THEN [state |-> "ready", error |-> None, llm |-> llm]
              ELSE [state |-> "failed", error |-> "RuntimeError", llm |-> NoLLM]
    /\ UNCHANGED <<env, fs, dirs, inv, fs0, fmt>>

----------------------------------------------------------------------------
(* The files.                                                              *)

NoFile == [exists |-> FALSE, data |-> <<>>]
File(data) == [exists |-> TRUE, data |-> data]

\* examples/strings.py
SRC_STRINGS == <<"def reverse(s): ...", "\n", "def capitalize_first(s): ...">>

\* the arguments a caller passes
SrcPaths == { <<"examples", "/", "strings", ".", "py">>,
              <<".", "/", "examples", "/", "strings", ".", "py">>,
              <<"examples", "/", "missing", ".", "py">> }
OutDirs == { <<"out">>, <<"/", "repo", "/", "out">> }

ModuleName(src_path) == SplitextRoot(Basename(src_path))

\* The paths the program hands to the operating system, and the file or
\* directory each one names there: a relative path is taken from the
\* working directory.
GivenPaths ==
    OutDirs \cup {Join(d, TestFileName(ModuleName(Abspath(s)))) :
                     d \in OutDirs, s \in SrcPaths}
PathTable == [p \in GivenPaths |-> Abspath(p)]
OsPath(p) == PathTable[p]

FsPaths ==
    {Abspath(s) : s \in SrcPaths} \cup
    {OsPath(Join(d, TestFileName(ModuleName(Abspath(s))))) :
        d \in OutDirs, s \in SrcPaths}

InitFs ==
    [f \in FsPaths |->
        IF f = Abspath(<<"examples", "/", "strings", ".", "py">>)
        THEN File(SRC_STRINGS) ELSE NoFile]

InitDirs == {CWD, Abspath(<<"examples">>)}

----------------------------------------------------------------------------
(* The model's answers.                                                    *)

IMPORT_PYTEST == <<"import", " ", "pytest">>
DEF_TEST == <<"def", " ", "test_">>

Words == {IMPORT_PYTEST, DEF_TEST, <<"\n">>, <<"x">>}

\* resp.content: up to MaxWords words, one after the other
Responses == {Concat(ws) : ws \in SeqsUpTo(Words, MaxWords)}

SYSTEM_PROMPT == "You are an expert Python developer and pytest author."

----------------------------------------------------------------------------
(* agent.py, lines 26 to 55: generate_tests_for_file.                      *)

Threads == {"A", "B"}
MainThread == "A"

IdleFrame ==
    [pc |-> "idle", src_path |-> <<>>, out_dir |-> <<>>, module_name |-> <<>>,
     source |-> <<>>, got_resp |-> FALSE, resp |-> <<>>, content |-> <<>>,
     out_fname |-> <<>>, err |-> None, result |-> <<>>,
     trace |-> <<>>, calls |-> <<>>]

\* the exception leaves the function: the call is over
Raise(frame, e) == [frame EXCEPT !.pc = "failed", !.err = e]

\* lines 30, 31: the call begins, the path is made absolute, the module is named
Invoke(p, src, dir) ==
    /\ mod.state = "ready"
    /\ inv[p].pc = "idle"
    /\ inv' = [inv EXCEPT ![p] =
                 [IdleFrame EXCEPT !.pc = "start",
                                   !.src_path = Abspath(src),
                                   !.out_dir = dir,
                                   !.module_name = ModuleName(Abspath(src))]]
    /\ fs0' = fs
    /\ UNCHANGED <<env, mod, fs, dirs, fmt>>

\* (variant) a source that cannot be read is taken to be empty
ReadFailedEmpty(f) ==
    [f EXCEPT !.pc = "read", !.source = <<>>, !.trace = Append(f.trace, "read")]

\* line 32 when the file is not there: open() raises
ReadFailed(f) == Raise(f, "FileNotFoundError")

\* lines 32, 33: the source is read
ReadSource(p) ==
    /\ inv[p].pc = "start"
    /\ LET f == inv[p] IN
       inv' = [inv EXCEPT ![p] =
                 IF fs[f.src_path].exists
                 THEN [f EXCEPT !.pc = "read",
                                !.source = fs[f.src_path].data,
                                !.trace = Append(f.trace, "read")]
                 ELSE ReadFailed(f)]
    /\ UNCHANGED <<env, mod, fs, dirs, fs0, fmt>>

\* lines 35 to 37: the two messages, the system message first
Messages(f) ==
    << [role |-> "system", content |-> <<SYSTEM_PROMPT>>],
       [role |-> "user", content |-> BuildPrompt(f.src_path, f.source).val] >>

\* (variant) only the second check is made
ValidateNoPrefix(content) ==
    IF ~Contains(content, DEF_TEST) THEN "ValueError: no test functions"
    ELSE None

\* (variant) only the first check is made
ValidateNoTests(content) ==
    IF ~StartsWith(content, IMPORT_PYTEST) THEN "ValueError: import pytest"
    ELSE None

\* lines 43 to 48: the two checks of the answer, in their order
Validate(content) ==
    IF ~StartsWith(content, IMPORT_PYTEST) THEN "ValueError: import pytest"
    ELSE IF ~Contains(content, DEF_TEST) THEN "ValueError: no test functions"
    ELSE None

\* lines 39 to 50 with an answer r: it is trimmed and checked, the name of
\* the output file is made
Answered(f, r) ==
    LET content == Strip(r)
        g == [f EXCEPT !.got_resp = TRUE, !.resp = r, !.content = content,
                       !.trace = Append(f.trace, "call"),
                       !.calls = Append(f.calls, Messages(f))]
    IN  IF Validate(content) # None
        THEN Raise(g, Validate(content))
        ELSE [g EXCEPT !.pc = "validated",
                       !.out_fname = Join(f.out_dir, TestFileName(f.module_name))]

\* (variant) a failed call of the model is made again
TransportErrorRetry(f) ==
    [f EXCEPT !.trace = Append(f.trace, "call"),
              !.calls = Append(f.calls, Messages(f))]

\* line 39 when the call of the model fails (time out, authentication, ...)
TransportError(f) ==
    Raise([f EXCEPT !.trace = Append(f.trace, "call"),
                    !.calls = Append(f.calls, Messages(f))],
          "TransportError")

\* lines 35 to 50: the prompt is built, the model is called once
CallModel(p) ==
    /\ inv[p].pc = "read"
    /\ \/ \E r \in Responses : inv' = [inv EXCEPT ![p] = Answered(inv[p], r)]
       \/ inv' = [inv EXCEPT ![p] = TransportError(inv[p])]
    /\ UNCHANGED <<env, mod, fs, dirs, fs0, fmt>>

\* line 51: os.makedirs(out_dir, exist_ok=True)
MakeDirs(p) ==
    /\ inv[p].pc = "validated"
    /\ LET f == [inv[p] EXCEPT !.trace = Append(@, "makedirs")] IN
       \/ /\ inv' = [inv EXCEPT ![p] = [f EXCEPT !.pc = "dirs"]]
          /\ dirs' = dirs \cup {OsPath(f.out_dir)}
       \/ /\ inv' = [inv EXCEPT ![p] = Raise(f, "OSError")]
          /\ dirs' = dirs
    /\ UNCHANGED <<env, mod, fs, fs0, fmt>>

\* (variant) the file is opened without being emptied (mode "r+")
TruncateKeep(old) == old

\* what open(out_fname, "w") leaves of a file that is there
Truncate(old) == <<>>

\* (variant) the file is opened only when no other thread has it open
OpenOutLocked(p) ==
    /\ inv[p].pc = "dirs"
    /\ \A q \in Threads \ {p} :
          ~(inv[q].pc = "opened" /\ OsPath(inv[q].out_fname) = OsPath(inv[p].out_fname))
    /\ LET f == [inv[p] EXCEPT !.trace = Append(@, "open")]
           path == OsPath(f.out_fname) IN
       \/ /\ inv' = [inv EXCEPT ![p] = [f EXCEPT !.pc = "opened"]]
          /\ fs' = [fs EXCEPT ![path] = File(<<>>)]
       \/ /\ inv' = [inv EXCEPT ![p] = Raise(f, "OSError")]
          /\ fs' = fs
    /\ UNCHANGED <<env, mod, dirs, fs0, fmt>>

\* line 52: the output file is opened for writing: it is created or emptied
OpenOut(p) ==
    /\ inv[p].pc = "dirs"
    /\ LET f == [inv[p] EXCEPT !.trace = Append(@, "open")]
           path == OsPath(f.out_fname) IN
       \/ /\ inv' = [inv EXCEPT ![p] = [f EXCEPT !.pc = "opened"]]
          /\ fs' = [fs EXCEPT ![path] = File(Truncate(@.data))]
       \/ /\ inv' = [inv EXCEPT ![p] = Raise(f, "OSError")]
          /\ fs' = fs
    /\ UNCHANGED <<env, mod, dirs, fs0, fmt>>

\* content + "\n"
WriteData(content) == content \o <<"\n">>

\* the bytes of a file after data is written at its start
WriteAt0(old, data) == data \o SubSeq(old, Len(data) + 1, Len(old))

\* lines 53 to 55: the text is written from the start of the file, the file
\* is closed, the path is returned; or the write fails and nothing is written
WriteOut(p) ==
    /\ inv[p].pc = "opened"
    /\ LET f == [inv[p] EXCEPT !.trace = Append(@, "write")]
           path == OsPath(f.out_fname) IN
       \/ /\ inv' = [inv EXCEPT ![p] =
                        [f EXCEPT !.pc = "done", !.result = f.out_fname]]
          /\ fs' = [fs EXCEPT ![path] = File(WriteAt0(@.data, WriteData(f.content)))]
       \/ /\ inv' = [inv EXCEPT ![p] = Raise(f, "OSError")]
          /\ fs' = fs
    /\ UNCHANGED <<env, mod, dirs, fs0, fmt>>

\* the caller has the result or the exception; the frame is gone
Return(p) ==
    /\ inv[p].pc \in {"done", "failed"}
    /\ inv' = [inv EXCEPT ![p] = IdleFrame]
    /\ UNCHANGED <<env, mod, fs, dirs, fs0, fmt>>

----------------------------------------------------------------------------
(* The program.                                                            *)

NoFmt == [src_path |-> <<>>, source |-> <<>>, done |-> FALSE,
          out |-> [ok |-> FALSE, val |-> <<>>]]

Init ==
    /\ env \in [EnvVars -> EnvValues]
    /\ mod = Unloaded
    /\ fs = InitFs
    /\ dirs = InitDirs
    /\ inv = [p \in Threads |-> IdleFrame]
    /\ fs0 = InitFs
    /\ fmt = NoFmt

\* a step of a call of generate_tests_for_file by thread p
generate_tests_for_file(p) ==
    \/ \E src \in SrcPaths, dir \in OutDirs : Invoke(p, src, dir)
    \/ ReadSource(p)
    \/ CallModel(p)
    \/ MakeDirs(p)
    \/ OpenOut(p)
    \/ WriteOut(p)

\* one thread: the calls of generate_tests_for_file come one after the other
Next ==
    \/ ModuleInit
    \/ generate_tests_for_file(MainThread)
    \/ Return(MainThread)

Spec == Init /\ [][Next]_vars

\* the module is loaded with its three variables set
InitConc ==
    /\ Init
    /\ \A v \in EnvVars : env[v] = "value"

\* the out_dir the two threads pass
ConcDir == <<"out">>

\* two threads, each calling generate_tests_for_file once, with the same
\* out_dir
NextConc ==
    \/ ModuleInit
    \/ \E p \in Threads :
          \/ \E src \in SrcPaths : Invoke(p, src, ConcDir)
          \/ ReadSource(p)
          \/ CallModel(p)
          \/ MakeDirs(p)
          \/ OpenOut(p)
          \/ WriteOut(p)

SpecConc == InitConc /\ [][NextConc]_vars

----------------------------------------------------------------------------
(* The prompt builder taken alone.                                         *)

SrcTokens == {"{", "}", "\"", "'", "x"}

PromptPaths ==
    {Abspath(s) : s \in SrcPaths} \cup {<<"/", "repo", "/", "{", "x", "}", ".", "py">>}

InitPrompt ==
    /\ env = [v \in EnvVars |-> "value"]
    /\ mod = Unloaded
    /\ fs = InitFs
    /\ dirs = InitDirs
    /\ inv = [p \in Threads |-> IdleFrame]
    /\ fs0 = InitFs
    /\ fmt \in {[NoFmt EXCEPT !.src_path = p, !.source = s] :
                   p \in PromptPaths, s \in SeqsUpTo(SrcTokens, MaxSrcLen)}

\* agent.py, line 35
PromptStep ==
    /\ ~fmt.done
    /\ fmt' = [fmt EXCEPT !.done = TRUE,
                          !.out = BuildPrompt(fmt.src_path, fmt.source)]
    /\ UNCHANGED <<env, mod, fs, dirs, inv, fs0>>

SpecPrompt == InitPrompt /\ [][PromptStep]_vars

----------------------------------------------------------------------------
(* What the claims speak of, said without the operators of the program.    *)

\* the frame of the one thread of Spec
F == inv[MainThread]

\* r without the white space at its two ends: what lies between its first
\* and its last token that is not white space
Trim(r) ==
    LET solid == {k \in 1..Len(r) : r[k] \notin {" ", "\n"}} IN
    IF solid = {} THEN <<>>
    ELSE SubSeq(r, CHOOSE i \in solid : \A k \in solid : i <= k,
                   CHOOSE j \in solid : \A k \in solid : k <= j)

\* t begins with the literal import pytest
BeginsWithImportPytest(t) ==
    /\ Len(t) >= 3
    /\ t[1] = "import" /\ t[2] = " " /\ t[3] = "pytest"

\* t holds the literal def test_ somewhere
HasDefTest(t) ==
    \E i \in 1..Len(t) :
        /\ i + 2 <= Len(t)
        /\ t[i] = "def" /\ t[i + 1] = " " /\ t[i + 2] = "test_"

ValidationErrors == {"ValueError: import pytest", "ValueError: no test functions"}

\* the one source file there is, and the output file of its module in out_dir
StringsPy == <<"/", "repo", "/", "examples", "/", "strings", ".", "py">>
OutputPath == <<"/", "repo", "/", "out", "/", "test_", "strings", ".", "py">>

\* the call of the thread is over
Over(f) == f.pc \in {"done", "failed"}

----------------------------------------------------------------------------
(* The claims.                                                             *)

\* C1, as first stated: whenever the answer of the model, trimmed, begins
\* with import pytest and holds def test_, the call succeeds: it never fails.
C1_ValidAnswerAlwaysSucceeds ==
    (F.got_resp /\ BeginsWithImportPytest(Trim(F.resp)) /\ HasDefTest(Trim(F.resp)))
        => F.pc # "failed"

\* C1, amended: when the answer, trimmed, begins with import pytest and holds
\* def test_, the call passes both checks and can fail only with an I/O
\* error of the output directory or file; when it returns, it returns
\* out_dir/test_<module_name>.py and that file holds exactly the trimmed
\* answer and one line break, whatever it held when the call began.
C1_ValidAnswerWritten ==
    (F.got_resp /\ BeginsWithImportPytest(Trim(F.resp)) /\ HasDefTest(Trim(F.resp)))
        => /\ F.pc \in {"validated", "dirs", "opened", "done", "failed"}
           /\ F.pc = "failed" => F.err = "OSError"
           /\ F.pc = "done" =>
                /\ F.src_path = StringsPy
                /\ F.result = F.out_dir \o <<"/", "test_", "strings", ".", "py">>
                /\ fs[OutputPath] = File(Trim(F.resp) \o <<"\n">>)

\* C1, its case: a call has returned after an answer padded with white space,
\* and the file held another text when the call began.
C1_Witness ==
    /\ F.pc = "done"
    /\ F.resp # Trim(F.resp)
    /\ fs0[OutputPath].exists
    /\ Len(fs0[OutputPath].data) > Len(fs[OutputPath].data)

\* C2: when the answer, trimmed, does not begin with import pytest, the call
\* fails with the error of the first check and the files are as they were
\* when the call began.
C2_NoPrefixFailsAndWritesNothing ==
    (F.got_resp /\ ~BeginsWithImportPytest(Trim(F.resp)))
        => /\ F.pc = "failed"
           /\ F.err = "ValueError: import pytest"
           /\ fs = fs0

\* C2, its case: such a call has failed while an output file of an earlier
\* call is there; the answer holds def test_ and, further on, import pytest.
C2_Witness ==
    /\ F.pc = "failed"
    /\ F.got_resp
    /\ ~BeginsWithImportPytest(Trim(F.resp))
    /\ HasDefTest(Trim(F.resp))
    /\ \E i \in 2..Len(F.resp) : F.resp[i] = "pytest"
    /\ fs[OutputPath].exists

\* C3: when the answer, trimmed, holds no def test_, the call fails with a
\* content-validation error; when it begins with import pytest, with the
\* error of the second check.
C3_NoTestFails ==
    (F.got_resp /\ ~HasDefTest(Trim(F.resp)))
        => /\ F.pc = "failed"
           /\ F.err \in ValidationErrors
           /\ BeginsWithImportPytest(Trim(F.resp))
                 => F.err = "ValueError: no test functions"

\* C3, its case: an answer that begins with import pytest and holds no
\* def test_ has made the call fail.
C3_Witness ==
    /\ F.pc = "failed"
    /\ F.got_resp
    /\ BeginsWithImportPytest(Trim(F.resp))
    /\ ~HasDefTest(Trim(F.resp))

\* C4: a call whose source file is not there fails with an I/O error having
\* called the model not once, and it goes no further; a call of the model is
\* always preceded by the read of the source, which succeeded.
C4_ReadBeforeModelCall ==
    /\ (F.pc \notin {"idle", "start"} /\ ~fs[F.src_path].exists)
          => /\ F.pc = "failed"
             /\ F.err = "FileNotFoundError"
             /\ F.calls = <<>>
             /\ F.trace = <<>>
    /\ F.calls # <<>>
          => /\ Len(F.trace) >= 2
             /\ F.trace[1] = "read"
             /\ F.trace[2] = "call"
             /\ fs[F.src_path].exists
             /\ F.source = fs[F.src_path].data

\* C4, its case: a call for a file that is not there has failed.
C4_Witness ==
    /\ F.pc = "failed"
    /\ ~fs[F.src_path].exists

\* C5: when a call has failed, whatever the error, the files are as they
\* were when it began: no output file is made, one that was there keeps its
\* content.
C5_FailureLeavesFiles ==
    F.pc = "failed" => fs = fs0

\* C6, as first stated: when any one of the four values of the environment
\* is missing or empty, the initialisation of the module fails.
C6_AnyOfFourMissingFails ==
    (mod.state # "unloaded" /\ \E v \in EnvVars : env[v] \in {None, ""})
        => mod.state = "failed"

\* C6, amended: the initialisation fails with the configuration error exactly
\* when one of the three values read (endpoint, key, deployment) is missing
\* or empty; a call of generate_tests_for_file takes place only in a module
\* that was initialised, with the three values set.
C6_ThreeValuesRequired ==
    /\ mod.state # "unloaded"
          => /\ (mod.state = "failed" /\ mod.error = "RuntimeError")
                   <=> (\E v \in ReadVars : env[v] \in {None, ""})
             /\ mod.state = "ready" <=> (\A v \in ReadVars : env[v] \notin {None, ""})
    /\ \A p \in Threads :
          inv[p].pc # "idle"
             => /\ mod.state = "ready"
                /\ \A v \in ReadVars : env[v] \notin {None, ""}

\* C6, its case: the initialisation has failed with only the key empty.
C6_Witness ==
    /\ mod.state = "failed"
    /\ env["AZURE_OPENAI_KEY"] = ""
    /\ \A v \in EnvVars \ {"AZURE_OPENAI_KEY"} : env[v] = "value"

\* C7: the prompt is built without error and holds the path and the source
\* text, the path before the source.
C7_PromptHoldsPathAndSource ==
    fmt.done =>
        /\ fmt.out.ok
        /\ \E i \in 1..(Len(fmt.out.val) + 1), j \in 1..(Len(fmt.out.val) + 1) :
              /\ i + Len(fmt.src_path) <= j
              /\ j + Len(fmt.source) <= Len(fmt.out.val) + 1
              /\ SubSeq(fmt.out.val, i, i + Len(fmt.src_path) - 1) = fmt.src_path
              /\ SubSeq(fmt.out.val, j, j + Len(fmt.source) - 1) = fmt.source

\* C8: a call of generate_tests_for_file calls the model at most once, and
\* once when it has got past that line; the call carries the system message,
\* then the user message; the steps taken are the first ones of read, call,
\* makedirs, open, write, none of them twice; after an error no step of the
\* call can be taken.
C8_OneModelCallNoRetry ==
    /\ Len(F.calls) <= 1
    /\ F.pc \in {"validated", "dirs", "opened", "done"} => Len(F.calls) = 1
    /\ (F.pc = "failed" /\ F.err # "FileNotFoundError") => Len(F.calls) = 1
    /\ \A i \in 1..Len(F.calls) :
          /\ Len(F.calls[i]) = 2
          /\ F.calls[i][1].role = "system"
          /\ F.calls[i][1].content
                = <<"You are an expert Python developer and pytest author.">>
          /\ F.calls[i][2].role = "user"
    /\ \E n \in 0..5 :
          F.trace = SubSeq(<<"read", "call", "makedirs", "open", "write">>, 1, n)
    /\ F.pc = "failed" =>
          ~ENABLED (\/ ReadSource(MainThread) \/ CallModel(MainThread)
                    \/ MakeDirs(MainThread) \/ OpenOut(MainThread)
                    \/ WriteOut(MainThread))

\* C8, its case: the call of the model has failed.
C8_Witness ==
    /\ F.pc = "failed"
    /\ F.err = "TransportError"

\* C9: of two calls that run at once with the same out_dir and module name,
\* each names the same output file, and neither is held back by the other:
\* a call that is about to open the file can open it, and one that has it
\* open can write it, whatever the other call is doing.
C9_NoMutualExclusion ==
    \A p \in Threads : \A q \in Threads \ {p} :
        /\ (inv[p].pc \in {"validated", "dirs", "opened"}
              /\ inv[q].pc \in {"validated", "dirs", "opened"}
              /\ inv[p].out_dir = inv[q].out_dir
              /\ inv[p].module_name = inv[q].module_name)
             => OsPath(inv[p].out_fname) = OsPath(inv[q].out_fname)
        /\ (inv[p].pc = "dirs" /\ inv[q].pc = "opened") => ENABLED OpenOut(p)
        /\ (inv[p].pc = "opened" /\ inv[q].pc = "opened") => ENABLED WriteOut(p)

\* C9, its case: both calls have opened the same file and neither has
\* finished its write.
C9_Witness ==
    /\ inv["A"].pc = "opened"
    /\ inv["B"].pc = "opened"
    /\ inv["A"].content # inv["B"].content
    /\ OsPath(inv["A"].out_fname) = OsPath(inv["B"].out_fname)

\* the text of an output file as C10 wants it
WellFormed(data) ==
    /\ BeginsWithImportPytest(data)
    /\ HasDefTest(data)
    /\ Len(data) >= 2
    /\ data[Len(data)] = "\n"
    /\ data[Len(data) - 1] \notin {" ", "\n"}

\* C10: between calls made one after the other, the output file is not
\* there, or its text begins with import pytest, holds def test_ and ends
\* with one line break that follows a token that is not white space.
C10_FileAbsentOrWellFormed ==
    (F.pc = "idle" \/ Over(F))
        => (~fs[OutputPath].exists \/ WellFormed(fs[OutputPath].data))

====
